---- MODULE Spec2Model ----
(***************************************************************************)
(* Closest-sum-to-zero finder (src/closest_sum.py).                        *)
(*                                                                         *)
(* find_closest_sum_to_zero sorts the caller's list in place and scans it  *)
(* with two cursors; get_numbers_from_user reads one list from the         *)
(* console; the __main__ block is a menu loop around the two.              *)
(*                                                                         *)
(* Spec     : the function called directly on an arbitrary list, then      *)
(*            called again on the same list or on a sorted copy.           *)
(* SpecMain : the interactive program (menu, reader, demonstration arrays).*)
(*                                                                         *)
(* Python indices are kept 0-based (left, right); At(a, i) reads a[i].     *)
(***************************************************************************)
EXTENDS Integers, Sequences, FiniteSets

VARIABLES
    pc,        \* position in find_closest_sum_to_zero: idle, entry, loop, done, raised
    arr,       \* the list object the function was called on
    left,      \* line 28
    right,     \* line 29
    min_sum,   \* line 30, float('inf') or an integer
    result,    \* line 31, (None, None) or a pair of integers
    given,     \* history: the list as its owner built it, before any call
    orig,      \* history: the contents of arr when the current call was entered
    visited,   \* history: the <<left, right>> cursor pairs the loop has examined
    bestAt,    \* history: the iteration (1-based) that last assigned result, 0 if none
    call,      \* which call this is: first, again (same list), sorted (sorted copy), menu, demo
    first,     \* the pair returned by the first call
    mpc,       \* position in the __main__ block: lib, menu, reader, got, demo, exit
    numbers,   \* line 97, what get_numbers_from_user returned
    typed,     \* history: the line typed in the reader iteration that returned
    k          \* index of the demonstration array being processed (0-based)

vars == <<pc, arr, left, right, min_sum, result, given, orig, visited, bestAt,
          call, first, mpc, numbers, typed, k>>

coreVars == <<pc, arr, left, right, min_sum, result, orig, visited, bestAt>>
mainVars == <<mpc, numbers, typed, k>>

----------------------------------------------------------------------------
\* Bounds of the model

MaxLen == 4
MaxVal == 2
MaxLine == 5

Values == (0 - MaxVal) .. MaxVal

SeqsUpTo(n, S) == UNION {[1..m -> S] : m \in 0..n}

----------------------------------------------------------------------------
\* Values of the program

\* abs() on integers, line 38
Abs(x) == IF x < 0 THEN 0 - x ELSE x

\* arr[i] with Python's 0-based index
At(a, i) == a[i + 1]

\* float('inf')
Inf == [inf |-> TRUE, val |-> 0]
Fin(v) == [inf |-> FALSE, val |-> v]

\* the tuple (None, None) and a tuple of two integers
NoneNone == [isNone |-> TRUE, a |-> 0, b |-> 0]
Pair(x, y) == [isNone |-> FALSE, a |-> x, b |-> y]

\* the demonstration arrays of menu option 2
test_arrays ==
    << <<-8, 4, 5, -10, 3>>,
       <<1, 60, -10, 70, -80, 85>>,
       <<-1, 2, -3, 4, -5>>,
       <<1, 2, 3, 4, 5>>,
       <<-1, -2, -3, -4, -5>> >>

Inputs == SeqsUpTo(MaxLen, Values) \cup {test_arrays[i] : i \in 1..Len(test_arrays)}

----------------------------------------------------------------------------
\* list.sort(): the elements in non-decreasing order

RECURSIVE Insert(_, _)
Insert(x, s) ==
    IF s = <<>> THEN <<x>>
    ELSE IF x <= Head(s) THEN <<x>> \o s
    ELSE <<Head(s)>> \o Insert(x, Tail(s))

RECURSIVE SortAsc(_)
SortAsc(s) == IF s = <<>> THEN <<>> ELSE Insert(Head(s), SortAsc(Tail(s)))

\* a single bubble pass: sorted only if the list was nearly sorted
RECURSIVE SortOnePass(_)
SortOnePass(s) ==
    IF Len(s) < 2 THEN s
    ELSE IF s[1] <= s[2] THEN <<s[1]>> \o SortOnePass(Tail(s))
    ELSE <<s[2]>> \o SortOnePass(<<s[1]>> \o Tail(Tail(s)))

\* sorted the wrong way round
SortDesc(s) == [i \in 1..Len(s) |-> SortAsc(s)[Len(s) + 1 - i]]

Sort(s) == SortAsc(s)

----------------------------------------------------------------------------
\* The conditions and steps of find_closest_sum_to_zero

TooShortOff(a) == Len(a) < 1

\* line 21
TooShort(a) == Len(a) < 2

InitMinSumZero == Fin(0)

\* line 30
InitMinSum == Inf

CloserNoAbs(cur, m) == m.inf \/ cur < m.val

CloserLE(cur, m) == m.inf \/ Abs(cur) <= Abs(m.val)

\* line 38: abs(current_sum) < abs(min_sum)
Closer(cur, m) == m.inf \/ Abs(cur) < Abs(m.val)

AdvanceBoth(cur, l, r) ==
    IF cur < 0 THEN <<l + 1, r>>
    ELSE IF cur = 0 THEN <<l + 1, r - 1>>
    ELSE <<l, r - 1>>

AdvanceFlipped(cur, l, r) == IF cur > 0 THEN <<l + 1, r>> ELSE <<l, r - 1>>

\* lines 43-46: the new <<left, right>>
Advance(cur, l, r) == IF cur < 0 THEN <<l + 1, r>> ELSE <<l, r - 1>>

\* lines 21-31: the length guard, the sort and the initialisation
Enter ==
    /\ pc = "entry"
    /\ IF TooShort(arr)
       THEN /\ pc' = "raised"
            /\ UNCHANGED <<arr, left, right, min_sum, result, visited, bestAt>>
       ELSE /\ arr' = Sort(arr)
            /\ left' = 0
            /\ right' = Len(arr) - 1
            /\ min_sum' = InitMinSum
            /\ result' = NoneNone
            /\ visited' = <<>>
            /\ bestAt' = 0
            /\ pc' = "loop"
    /\ UNCHANGED <<given, orig, call, first, mainVars>>

\* lines 34-46: one iteration of the scan
LoopStep ==
    /\ pc = "loop"
    /\ left < right
    /\ LET current_sum == At(arr, left) + At(arr, right)
           next == Advance(current_sum, left, right)
       IN /\ IF Closer(current_sum, min_sum)
             THEN /\ min_sum' = Fin(current_sum)
                  /\ result' = Pair(At(arr, left), At(arr, right))
                  /\ bestAt' = Len(visited) + 1
             ELSE UNCHANGED <<min_sum, result, bestAt>>
          /\ left' = next[1]
          /\ right' = next[2]
          /\ visited' = Append(visited, <<left, right>>)
    /\ UNCHANGED <<pc, arr, given, orig, call, first, mainVars>>

\* lines 34 and 48: the loop condition fails and result is returned
Return ==
    /\ pc = "loop"
    /\ ~(left < right)
    /\ pc' = "done"
    /\ UNCHANGED <<arr, left, right, min_sum, result, given, orig, visited, bestAt,
                   call, first, mainVars>>

----------------------------------------------------------------------------
\* Direct callers of the function

\* a second call on the list the first call has sorted
CallAgain ==
    /\ mpc = "lib"
    /\ pc = "done"
    /\ call = "first"
    /\ call' = "again"
    /\ first' = result
    /\ orig' = arr
    /\ pc' = "entry"
    /\ UNCHANGED <<arr, left, right, min_sum, result, given, visited, bestAt, mainVars>>

\* a call on a sorted copy, sorted(given), of the values of the first call
CallSorted ==
    /\ mpc = "lib"
    /\ pc = "done"
    /\ call = "first"
    /\ call' = "sorted"
    /\ first' = result
    /\ arr' = Sort(given)
    /\ orig' = Sort(given)
    /\ pc' = "entry"
    /\ UNCHANGED <<left, right, min_sum, result, given, visited, bestAt, mainVars>>

----------------------------------------------------------------------------
\* Console text: a line is a sequence of one-character strings

Alphabet == {"q", "Q", " ", "[", "]", ",", "-", "1", "2"}

Lines == SeqsUpTo(MaxLine, Alphabet)

MenuLines == SeqsUpTo(2, {"1", "2", "3", "4", " "})

\* str.strip(): leading and trailing blanks removed
RECURSIVE LStrip(_)
LStrip(s) == IF s # <<>> /\ Head(s) = " " THEN LStrip(Tail(s)) ELSE s

RECURSIVE RStrip(_)
RStrip(s) ==
    IF s # <<>> /\ s[Len(s)] = " " THEN RStrip(SubSeq(s, 1, Len(s) - 1)) ELSE s

Strip(s) == RStrip(LStrip(s))

\* str.lower()
Lower(s) == [i \in 1..Len(s) |-> IF s[i] = "Q" THEN "q" ELSE s[i]]

\* line 69: startswith('[') and endswith(']')
Bracketed(s) == s # <<>> /\ s[1] = "[" /\ s[Len(s)] = "]"

\* line 71: user_input[1:-1]
Inner(s) == SubSeq(s, 2, Len(s) - 1)

\* str.split(','): the pieces between the commas, at least one piece
RECURSIVE Split(_)
Split(s) ==
    IF \A i \in 1..Len(s) : s[i] # "," THEN <<s>>
    ELSE LET c == CHOOSE i \in 1..Len(s) : s[i] = "," /\ \A j \in 1..(i - 1) : s[j] # ","
         IN <<SubSeq(s, 1, c - 1)>> \o Split(SubSeq(s, c + 1, Len(s)))

Digits == {"1", "2"}

DigitVal(d) == IF d = "1" THEN 1 ELSE 2

\* the value of a non-empty string of digits
RECURSIVE Decimal(_)
Decimal(s) ==
    IF Len(s) = 1 THEN DigitVal(s[1])
    ELSE 10 * Decimal(SubSeq(s, 1, Len(s) - 1)) + DigitVal(s[Len(s)])

\* int(x.strip()) succeeds: an optional sign and at least one digit
IsInt(tok) ==
    LET t == Strip(tok)
        body == IF t # <<>> /\ t[1] = "-" THEN Tail(t) ELSE t
    IN body # <<>> /\ \A i \in 1..Len(body) : body[i] \in Digits

\* int(x.strip())
IntVal(tok) ==
    LET t == Strip(tok)
    IN IF t[1] = "-" THEN 0 - Decimal(Tail(t)) ELSE Decimal(t)

\* None and a list, as values of numbers
None == [none |-> TRUE, list |-> <<>>]
Some(l) == [none |-> FALSE, list |-> l]

\* line 98: if numbers
Truthy(n) == ~n.none /\ n.list # <<>>

ReaderTooFewOff(nums) == Len(nums) < 1

\* line 75
ReaderTooFew(nums) == Len(nums) < 2

----------------------------------------------------------------------------
\* The interactive program

\* the locals of find_closest_sum_to_zero once it is not running
CoreIdle ==
    /\ pc' = "idle"
    /\ arr' = <<>>
    /\ left' = 0
    /\ right' = 0
    /\ min_sum' = Inf
    /\ result' = NoneNone
    /\ given' = <<>>
    /\ orig' = <<>>
    /\ visited' = <<>>
    /\ bestAt' = 0

\* a call of find_closest_sum_to_zero on the list a
CoreCall(a) ==
    /\ pc' = "entry"
    /\ arr' = a
    /\ given' = a
    /\ orig' = a
    /\ UNCHANGED <<left, right, min_sum, result, visited, bestAt>>

\* lines 93-123: one pass of the menu loop up to the dispatch on choice
Menu ==
    /\ mpc = "menu"
    /\ \E line \in MenuLines :
          LET choice == Strip(line)
          IN IF choice = <<"1">> THEN /\ mpc' = "reader"
                                      /\ UNCHANGED k
             ELSE IF choice = <<"2">> THEN /\ mpc' = "demo"
                                           /\ k' = 0
             ELSE IF choice = <<"3">> THEN /\ mpc' = "exit"
                                           /\ UNCHANGED k
             ELSE UNCHANGED <<mpc, k>>
    /\ UNCHANGED <<coreVars, given, call, first, numbers, typed>>

\* lines 62-82: one iteration of the loop of get_numbers_from_user
Read ==
    /\ mpc = "reader"
    /\ \E line \in Lines :
          LET user_input == Strip(line)
          IN IF Lower(user_input) = <<"q">>
             THEN /\ numbers' = None
                  /\ typed' = line
                  /\ mpc' = "got"
             ELSE LET text == IF Bracketed(user_input) THEN Inner(user_input)
                                                       ELSE user_input
                      toks == Split(text)
                  IN IF \E i \in 1..Len(toks) : ~IsInt(toks[i])
                     THEN UNCHANGED <<numbers, typed, mpc>>
                     ELSE LET nums == [i \in 1..Len(toks) |-> IntVal(toks[i])]
                          IN IF ReaderTooFew(nums)
                             THEN UNCHANGED <<numbers, typed, mpc>>
                             ELSE /\ numbers' = Some(nums)
                                  /\ typed' = line
                                  /\ mpc' = "got"
    /\ UNCHANGED <<coreVars, given, call, first, k>>

\* lines 97-99: the reader has returned; the function is called if numbers is truthy
AfterReader ==
    /\ mpc = "got"
    /\ IF Truthy(numbers)
       THEN /\ CoreCall(numbers.list)
            /\ call' = "menu"
            /\ mpc' = "call1"
            /\ UNCHANGED <<numbers, typed>>
       ELSE /\ mpc' = "menu"
            /\ numbers' = None
            /\ typed' = <<>>
            /\ UNCHANGED <<coreVars, given, call>>
    /\ UNCHANGED <<first, k>>

\* lines 100-101: the result of option 1 is printed, back to the menu
Printed ==
    /\ mpc = "call1"
    /\ pc = "done"
    /\ CoreIdle
    /\ mpc' = "menu"
    /\ numbers' = None
    /\ typed' = <<>>
    /\ UNCHANGED <<call, first, k>>

\* lines 113-114: the next demonstration array is passed to the function
Demo ==
    /\ mpc = "demo"
    /\ pc = "idle"
    /\ k < Len(test_arrays)
    /\ CoreCall(test_arrays[k + 1])
    /\ call' = "demo"
    /\ UNCHANGED <<first, mainVars>>

\* lines 115-116: its result is printed
DemoPrinted ==
    /\ mpc = "demo"
    /\ pc = "done"
    /\ CoreIdle
    /\ k' = k + 1
    /\ UNCHANGED <<call, first, mpc, numbers, typed>>

\* line 113: the for loop is exhausted, back to the menu
DemoEnd ==
    /\ mpc = "demo"
    /\ pc = "idle"
    /\ k = Len(test_arrays)
    /\ mpc' = "menu"
    /\ k' = 0
    /\ UNCHANGED <<coreVars, given, call, first, numbers, typed>>

InitMain ==
    /\ mpc = "menu"
    /\ pc = "idle"
    /\ arr = <<>>
    /\ given = <<>>
    /\ orig = <<>>
    /\ left = 0
    /\ right = 0
    /\ min_sum = Inf
    /\ result = NoneNone
    /\ visited = <<>>
    /\ bestAt = 0
    /\ call = "menu"
    /\ first = NoneNone
    /\ numbers = None
    /\ typed = <<>>
    /\ k = 0

NextMain ==
    \/ Menu \/ Read \/ AfterReader \/ Printed
    \/ Demo \/ DemoPrinted \/ DemoEnd
    \/ Enter \/ LoopStep \/ Return

SpecMain == InitMain /\ [][NextMain]_vars

Init ==
    /\ given \in Inputs
    /\ arr = given
    /\ orig = given
    /\ pc = "entry"
    /\ left = 0
    /\ right = 0
    /\ min_sum = Inf
    /\ result = NoneNone
    /\ visited = <<>>
    /\ bestAt = 0
    /\ call = "first"
    /\ first = NoneNone
    /\ mpc = "lib"
    /\ numbers = None
    /\ typed = <<>>
    /\ k = 0

Next == Enter \/ LoopStep \/ Return \/ CallAgain \/ CallSorted

Spec == Init /\ [][Next]_vars

----------------------------------------------------------------------------
\* Vocabulary of the properties

Range(s) == {s[i] : i \in 1..Len(s)}

\* pairs of distinct positions of a sequence (1-based)
DistinctPositions(s) == {p \in (1..Len(s)) \X (1..Len(s)) : p[1] # p[2]}

IsSorted(s) == \A i \in 1..(Len(s) - 1) : s[i] <= s[i + 1]

Count(v, s) == Cardinality({i \in 1..Len(s) : s[i] = v})

SameBag(s, t) ==
    /\ Len(s) = Len(t)
    /\ \A v \in Range(s) \cup Range(t) : Count(v, s) = Count(v, t)

Largest(s) == CHOOSE x \in Range(s) : \A y \in Range(s) : y <= x

\* the largest element once one occurrence of the largest is set aside
SecondLargest(s) ==
    LET j == CHOOSE i \in 1..Len(s) : s[i] = Largest(s)
        rest == {i \in 1..Len(s) : i # j}
    IN CHOOSE x \in {s[i] : i \in rest} : \A i \in rest : s[i] <= x

AllNegative(s) == \A i \in 1..Len(s) : s[i] < 0

\* the sum the loop computed in its i-th iteration
VisitedSum(i) == At(arr, visited[i][1]) + At(arr, visited[i][2])

\* the first iteration whose pair has the least absolute sum of all iterations so far
FirstMinimal ==
    CHOOSE i \in 1..Len(visited) :
        /\ \A j \in 1..Len(visited) : Abs(VisitedSum(i)) <= Abs(VisitedSum(j))
        /\ \A j \in 1..(i - 1) : Abs(VisitedSum(j)) > Abs(VisitedSum(i))

Returned == pc = "done"

----------------------------------------------------------------------------
\* C1: for every list of length >= 2 the returned pair (a, b) has
\* |a + b| <= |s[i] + s[j]| for every two distinct positions i, j of the
\* list s that was passed in.
C1_GlobalMinimum ==
    Returned =>
        /\ ~result.isNone
        /\ \A p \in DistinctPositions(orig) :
              Abs(result.a + result.b) <= Abs(orig[p[1]] + orig[p[2]])

C1_Witness ==
    /\ Returned
    /\ call = "first"
    /\ Len(orig) >= 3
    /\ orig # arr
    /\ \E p \in DistinctPositions(orig) :
          Abs(result.a + result.b) < Abs(orig[p[1]] + orig[p[2]])

\* C2: on a list of length 0 or 1 the call raises and returns no pair, and
\* the list is exactly as it was passed in; nothing else raises.
C2_ShortInputRaises ==
    /\ Len(orig) < 2 => pc \in {"entry", "raised"}
    /\ pc = "raised" => (Len(orig) < 2 /\ arr = orig /\ result.isNone)

C2_Witness == pc = "raised" /\ Len(orig) = 1 /\ arr = given

\* C3: the returned pair is never (None, None) and its components are the
\* values at two distinct positions of the list that was passed in.
C3_PairFromInput ==
    Returned =>
        /\ ~result.isNone
        /\ \E p \in DistinctPositions(orig) :
              result.a = orig[p[1]] /\ result.b = orig[p[2]]

C3_Witness ==
    /\ Returned
    /\ call = "first"
    /\ ~result.isNone
    /\ result.a = result.b
    /\ Count(result.a, orig) = 2

\* C4 as stated: on [-1, -2, -3, -4, -5] the call returns (-1, -2), and on
\* any all-negative list the tuple (largest, second-largest) in that order.
C4_Original ==
    (Returned /\ AllNegative(orig)) =>
        /\ result = Pair(Largest(orig), SecondLargest(orig))
        /\ (orig = test_arrays[5] => result = Pair(-1, -2))

\* C4 amended: on [-1, -2, -3, -4, -5] the call returns (-2, -1), and on any
\* all-negative list the tuple (second-largest, largest) in that order:
\* the components come out in ascending order.
C4_AllNegative ==
    (Returned /\ AllNegative(orig)) =>
        /\ result = Pair(SecondLargest(orig), Largest(orig))
        /\ (orig = test_arrays[5] => result = Pair(-2, -1))

C4_Witness ==
    /\ Returned
    /\ call = "first"
    /\ given = test_arrays[5]
    /\ result = Pair(-2, -1)

\* C5: among the visited pairs with the least absolute sum the recorded one
\* is the first in scan order; a visited pair whose absolute sum equals the
\* recorded one never replaces it.
C5_FirstTieWins ==
    /\ []((pc \in {"loop", "done"} /\ visited # <<>>) =>
            /\ bestAt = FirstMinimal
            /\ result = Pair(At(arr, visited[bestAt][1]), At(arr, visited[bestAt][2])))
    /\ [][(pc = "loop" /\ left < right /\ ~min_sum.inf
             /\ Abs(At(arr, left) + At(arr, right)) = Abs(min_sum.val))
           => (result' = result /\ min_sum' = min_sum /\ bestAt' = bestAt)]_vars

C5_Witness ==
    /\ Returned
    /\ \E i \in 1..Len(visited) :
          /\ i > bestAt
          /\ bestAt > 0
          /\ Abs(VisitedSum(i)) = Abs(min_sum.val)
          /\ visited[i] # visited[bestAt]
          /\ Pair(At(arr, visited[i][1]), At(arr, visited[i][2])) # result

\* C6: a call on a sorted copy of the same values, and a second call on the
\* list the first call has sorted, return the pair the first call returned.
C6_SameOnSortedAndRepeat ==
    (Returned /\ call \in {"again", "sorted"}) => result = first

C6_Witness ==
    /\ Returned
    /\ call = "again"
    /\ given # arr
    /\ Len(given) >= 3
    /\ result = first
    /\ ~result.isNone

\* C7: after a successful call the list is in non-decreasing order and is a
\* permutation of the list passed in; the scan changes no element.
C7_SortedPermutation ==
    /\ [](pc \in {"loop", "done"} => (IsSorted(arr) /\ SameBag(arr, orig)))
    /\ [][pc = "loop" => arr' = arr]_vars

C7_Witness ==
    /\ Returned
    /\ call = "first"
    /\ arr # orig
    /\ ~IsSorted(orig)
    /\ Len(visited) >= 2

\* C8: the loop runs exactly n - 1 iterations; each moves exactly one cursor
\* by one, a zero sum does not end it, and it ends only when left = right.
C8_ExactlyNMinusOneIterations ==
    /\ [](pc = "loop" => (left <= right /\ Len(visited) + (right - left) = Len(arr) - 1))
    /\ [](Returned => (left = right /\ Len(visited) = Len(arr) - 1))
    /\ [][(pc = "loop" /\ left < right) =>
            /\ pc' = "loop"
            /\ right' - left' = (right - left) - 1
            /\ (left' = left + 1 /\ right' = right) \/ (left' = left /\ right' = right - 1)
            /\ Len(visited') = Len(visited) + 1]_vars

C8_Witness ==
    /\ Returned
    /\ Len(arr) >= 3
    /\ \E i \in 1..(Len(visited) - 1) : VisitedSum(i) = 0

\* C9: from the second iteration on and at loop exit, every pair of
\* positions i < j outside the window (i < left or j > right) has
\* |arr[i] + arr[j]| >= |min_sum|, and min_sum is the sum of the recorded pair.
C9_LoopInvariant ==
    (pc \in {"loop", "done"} /\ visited # <<>>) =>
        /\ ~min_sum.inf
        /\ ~result.isNone
        /\ min_sum.val = result.a + result.b
        /\ \A i, j \in 0..(Len(arr) - 1) :
              (i < j /\ (i < left \/ j > right)) =>
                  Abs(At(arr, i) + At(arr, j)) >= Abs(min_sum.val)

C9_Witness ==
    /\ pc = "loop"
    /\ left < right
    /\ left > 0
    /\ right < Len(arr) - 1
    /\ \E i, j \in 0..(Len(arr) - 1) :
          i < j /\ i < left /\ j > right /\ Abs(At(arr, i) + At(arr, j)) > Abs(min_sum.val)

----------------------------------------------------------------------------
\* Vocabulary of the reader's property

CountChar(c, s) == Cardinality({i \in 1..Len(s) : s[i] = c})

\* the line is a quit request: q or Q between optional blanks
IsQuit(s) ==
    /\ CountChar("q", s) + CountChar("Q", s) = 1
    /\ \A i \in 1..Len(s) : s[i] \in {"q", "Q", " "}

\* C10: the reader returns only None, on a quit line, or a list of at least
\* two integers; so in the interactive program the function is entered only
\* with a list of length >= 2 and never raises, and it is never running
\* while the reader is.
C10_ReaderGuardsLength ==
    /\ pc # "raised"
    /\ pc = "entry" => Len(arr) >= 2
    /\ mpc \in {"reader", "got"} => pc = "idle"
    /\ mpc = "got" =>
          IF numbers.none THEN IsQuit(typed)
          ELSE /\ ~IsQuit(typed)
               /\ Len(numbers.list) >= 2
               /\ Len(numbers.list) = CountChar(",", typed) + 1
    /\ (mpc = "call1" /\ pc # "idle") => (~numbers.none /\ orig = numbers.list)

C10_Witness ==
    /\ mpc = "call1"
    /\ Returned
    /\ Bracketed(typed)
    /\ Len(orig) = 2
    /\ orig # arr

====
